---------------------------- MODULE Spec2Model ----------------------------
(***************************************************************************)
(* advanced_logging_filter/__main__.py as a state machine.                 *)
(*                                                                         *)
(* A Python string is a sequence of symbols.  A symbol is one of the       *)
(* punctuation characters "." "[" "]" "," or a name (a run of letters the  *)
(* code never looks inside: it only splits on the punctuation).            *)
(*                                                                         *)
(* Spec        the module once loaded: run as a script it ends without     *)
(*             calling main(); a host that imported it calls main(), which *)
(*             reads the global __sigterm_handler (line 36) the file binds *)
(*             nowhere, then handles --verbose, --debug and                *)
(*             --set_logging_level                                         *)
(* SpecApply   _apply_logging_level called on a fresh registry             *)
(* SpecExpand  _resolve_bracketed_logging_namespace on arbitrary strings   *)
(* SpecGrammar the same on the texts of well-formed grammar trees          *)
(*                                                                         *)
(* The arrival of a signal and the stream formatter (lines 88-100) are not *)
(* modelled.                                                               *)
(***************************************************************************)
EXTENDS Naturals, Sequences, FiniteSets, TLC

VARIABLES
    module_globals,       \* the names a host bound in the module's globals
    args,                 \* what parse_args returns: one field per flag
    pc,                   \* where main() stands
    namespaces_by_level,  \* main's ordered dict, as a sequence of entries
    levels,               \* logger name -> level set on that logger
    filters,              \* logger name -> the logger's list of filters
    printed,              \* lines printed by the latest operation
    error,                \* the uncaught error that ended the run, or "none"
    calls,                \* the calls of _apply_logging_level made so far
    namespace,            \* the argument of the expander under test
    tree,                 \* the grammar tree the argument was written from
    resolved              \* what the expander returned for it

vars == <<module_globals, args, pc, namespaces_by_level, levels, filters, printed, error,
          calls, namespace, tree, resolved>>

-----------------------------------------------------------------------------
(* Bounds *)

MaxLen == 7

MaxDepth == 2

MaxItems == 2

MaxTokens == 5

MaxCalls == 2

-----------------------------------------------------------------------------
(* Python string operations on sequences of symbols *)

\* str.find(ch): the least 1-based index of ch, 0 when absent (Python: -1)
Find(s, ch) ==
    IF \E i \in 1..Len(s) : s[i] = ch
    THEN CHOOSE i \in 1..Len(s) : s[i] = ch /\ \A j \in 1..(i-1) : s[j] # ch
    ELSE 0

\* str.rfind(ch): the greatest 1-based index of ch, 0 when absent
RFind(s, ch) ==
    IF \E i \in 1..Len(s) : s[i] = ch
    THEN CHOOSE i \in 1..Len(s) : s[i] = ch /\ \A j \in (i+1)..Len(s) : s[j] # ch
    ELSE 0

\* ch in s
Contains(s, ch) == \E i \in 1..Len(s) : s[i] = ch

\* s.endswith(ch)
EndsWith(s, ch) == Len(s) > 0 /\ s[Len(s)] = ch

\* the slice s[k:], given the 1-based index of the first symbol kept
From(s, first) == SubSeq(s, first, Len(s))

-----------------------------------------------------------------------------
(* _resolve_bracketed_logging_namespace *)

Returned(names)  == [status |-> "list",  names |-> names, why |-> "none"]
Unchanged(s)     == [status |-> "str",   names |-> <<s>>, why |-> "none"]
Raised(why)      == [status |-> "error", names |-> <<>>,  why |-> why]
NotCalled        == [status |-> "pending", names |-> <<>>, why |-> "none"]

\* for n in <value>: a returned string iterates by character, a list by element
Iterate(r) ==
    IF r.status = "str"
    THEN [i \in 1..Len(r.names[1]) |-> <<r.names[1][i]>>]
    ELSE r.names

\* line 200: not prefix.endswith('.')
MissingSeparator(prefix) == ~EndsWith(prefix, ".")

MissingClosingLenient(suffix) == FALSE

\* line 203: not suffix.endswith(']')
MissingClosing(suffix) == ~EndsWith(suffix, "]")

RECURSIVE resolve_bracketed_logging_namespace(_)
RECURSIVE ResolveLoop(_, _, _)

\* lines 208-229: the while loop over what is left of the bracket body
ResolveLoop(prefix, suffix, result) ==
    IF suffix = <<>> THEN Returned(result)
    ELSE
      LET comma == Find(suffix, ",")
          idx   == IF comma = 0 THEN Len(suffix) + 1 ELSE comma
          a     == SubSeq(suffix, 1, idx - 1)
          b     == From(suffix, idx + 1)
      IN  IF Contains(a, "[")
          THEN
            LET close == RFind(suffix, "]")
                c     == IF close = 0 THEN suffix ELSE SubSeq(suffix, 1, close)
                d     == IF close = 0 THEN <<>> ELSE From(suffix, close + 1)
                sub   == resolve_bracketed_logging_namespace(c)
                inner == Iterate(sub)
                more  == [i \in 1..Len(inner) |-> prefix \o inner[i]]
            IN  IF sub.status = "error" THEN sub
                ELSE IF d # <<>> /\ d[1] \notin {",", "]"}
                     THEN Raised("syntax problem")
                     ELSE ResolveLoop(prefix, From(d, 2), result \o more)
          ELSE ResolveLoop(prefix, b, Append(result, prefix \o a))

\* lines 194-229
resolve_bracketed_logging_namespace(ns) ==
    IF ~Contains(ns, "[") THEN Unchanged(ns)
    ELSE
      LET open   == Find(ns, "[")
          prefix == SubSeq(ns, 1, open - 1)
          suffix == From(ns, open + 1)
      IN  IF MissingSeparator(prefix) THEN Raised("missing separator")
          ELSE IF MissingClosing(suffix) THEN Raised("missing bracket")
          ELSE ResolveLoop(prefix, SubSeq(suffix, 1, Len(suffix) - 1), <<>>)

-----------------------------------------------------------------------------
(* Inputs of the expander *)

Alphabet == {"a", ".", "[", "]", ","}

\* the strings over the alphabet of at most n symbols
StringsUpTo(n) == UNION {[1..k -> Alphabet] : k \in 0..n}

\* A grammar tree of section 4.1: a plain dotted name (no items), or a dotted
\* prefix with a bracket group of items, each a tree again.
LeafNames == {<<"a">>, <<"b">>}
Prefixes  == {<<"a">>, <<"a", ".", "b">>}

Leaf(name) == [prefix |-> name, items |-> <<>>]

\* the sequences of 1 to n elements of S
SeqsUpTo(S, n) == UNION {[1..k -> S] : k \in 1..n}

RECURSIVE TreesOfDepth(_)
TreesOfDepth(d) ==
    IF d = 0 THEN {Leaf(n) : n \in LeafNames}
    ELSE {Leaf(n) : n \in LeafNames} \cup
         {[prefix |-> p, items |-> its] :
             p \in Prefixes, its \in SeqsUpTo(TreesOfDepth(d - 1), MaxItems)}

RECURSIVE Render(_)
RECURSIVE RenderItems(_, _)
RenderItems(its, i) ==
    IF i > Len(its) THEN <<>>
    ELSE (IF i = 1 THEN <<>> ELSE <<",">>) \o Render(its[i]) \o RenderItems(its, i + 1)

\* the text of a tree: prefix '.[' item ',' item ... ']'
Render(t) ==
    IF t.items = <<>> THEN t.prefix
    ELSE t.prefix \o <<".", "[">> \o RenderItems(t.items, 1) \o <<"]">>

RECURSIVE Expansion(_)
RECURSIVE ExpansionOfItems(_, _, _)
ExpansionOfItems(p, its, i) ==
    IF i > Len(its) THEN <<>>
    ELSE LET e == Expansion(its[i])
         IN  [k \in 1..Len(e) |-> p \o <<".">> \o e[k]] \o ExpansionOfItems(p, its, i + 1)

\* the reference expansion: every item expanded, prefixed, in order
Expansion(t) ==
    IF t.items = <<>> THEN <<t.prefix>>
    ELSE ExpansionOfItems(t.prefix, t.items, 1)

NoTree == Leaf(<<>>)

-----------------------------------------------------------------------------
(* The logging facility.  A level is written by its name: the facility's   *)
(* number -> name table is one-to-one on the six levels.  Its name ->      *)
(* number table also knows WARN and FATAL, other names of WARNING and      *)
(* CRITICAL.  A string that names no level is kept as the string           *)
(* getLevelName makes of it.                                               *)

CRITICAL == <<"CRITICAL">>
ERROR    == <<"ERROR">>
WARNING  == <<"WARNING">>
INFO     == <<"INFO">>
DEBUG    == <<"DEBUG">>
NOTSET   == <<"NOTSET">>

LevelNames == {CRITICAL, ERROR, WARNING, INFO, DEBUG, NOTSET}

WARN  == <<"WARN">>
FATAL == <<"FATAL">>

\* logging._nameToLevel on the two names that are no level's own name
Aliases == (WARN :> WARNING) @@ (FATAL :> CRITICAL)

\* logging.getLevelName: a level gives its name, a name its level, and
\* anything else the string "Level <x>"
getLevelName(x) ==
    IF x \in LevelNames THEN x
    ELSE IF x \in DOMAIN Aliases THEN Aliases[x]
    ELSE <<"Level">> \o x

\* Logger.setLevel's _checkLevel: a level passes; of the strings only the
\* "Level <x>" ones getLevelName made reach it, and they raise ValueError
UnknownLevel(level) == level \notin LevelNames

\* the root logger, logging.getLogger() (line 17)
logger == <<>>

\* Logger.parent: the logger of the name up to the last '.', else the root
Parent(name) ==
    IF Contains(name, ".") THEN SubSeq(name, 1, RFind(name, ".") - 1) ELSE logger

RECURSIVE getEffectiveLevel(_, _)
\* Logger.getEffectiveLevel: the first level set on the way up to the root
getEffectiveLevel(lv, name) ==
    IF lv[name] # NOTSET THEN lv[name]
    ELSE IF name = logger THEN NOTSET
    ELSE getEffectiveLevel(lv, Parent(name))

-----------------------------------------------------------------------------
(* FuncNameFilter (lines 20-31): the set of accepted function names *)

\* __init__: an empty set, then add_func_name(func_name)
FuncNameFilter(func_name) == {} \cup {func_name}

\* add_func_name
add_func_name(flt, func_name) == flt \cup {func_name}

\* filter: record.funcName in self.func_names
filter(flt, funcName) == funcName \in flt

-----------------------------------------------------------------------------
(* The hosting program, as importlib and inspect show it *)

\* line 115
root_module_name == "capore_tuio_server"

None == <<>>

Function         == [kind |-> "function", fget |-> None, fset |-> None]
Property(g, s)   == [kind |-> "property", fget |-> g,    fset |-> s]

Pkg   == <<root_module_name>>
ModM  == <<root_module_name, ".", "m">>
ModN  == <<root_module_name, ".", "m", ".", "n">>
ModU  == <<root_module_name, ".", "u">>

\* importlib.import_module succeeds for exactly these names
Modules == {Pkg, ModM, ModN, ModU}

\* the attributes getattr finds on each class (inherited ones included)
ClassA == (<<"f">> :> Function) @@
          (<<"g">> :> Property(<<"get_g">>, <<"set_g">>)) @@
          (<<"s">> :> Property(None, <<"set_s">>)) @@
          (<<"p">> :> Property(None, None))
ClassB == (<<"p">> :> Function) @@ (<<"h">> :> Function)
ClassC == (<<"f">> :> Function)

\* inspect.getmembers(module_obj) kept to the classes defined in the module,
\* in the order getmembers lists them (by name)
ClassesWithin(module_name) ==
    IF module_name = ModM THEN <<ClassA, ClassB>>
    ELSE IF module_name = ModN THEN <<ClassC>>
    ELSE <<>>

LoggerNames == {logger} \cup Modules

-----------------------------------------------------------------------------
(* _apply_logging_level (lines 104-191) *)

Line(text, ns, level) == [text |-> text, ns |-> ns, level |-> level]

Found(name)   == [outcome |-> "found", name |-> name]
Failed(why)   == [outcome |-> why,     name |-> None]

TryClassSkipping(cls, function_name) ==
    IF function_name \notin DOMAIN cls THEN Failed("AttributeError")
    ELSE
      LET function_obj == cls[function_name]
      IN  IF function_obj.kind = "function" THEN Found(function_name)
          ELSE IF function_obj.kind = "property" /\ function_obj.fget # None
               THEN Found(function_obj.fget)
               ELSE IF function_obj.kind = "property" /\ function_obj.fset # None
                    THEN Found(function_obj.fset)
                    ELSE Failed("AttributeError")

\* lines 151-170: the body of the loop for one class
TryClass(cls, function_name) ==
    IF function_name \notin DOMAIN cls THEN Failed("AttributeError")
    ELSE
      LET function_obj == cls[function_name]
      IN  IF function_obj.kind = "function" THEN Found(function_name)
          ELSE IF function_obj.kind = "property" /\ function_obj.fget # None
               THEN Found(function_obj.fget)
               ELSE IF function_obj.kind = "property" /\ function_obj.fset # None
                    THEN Found(function_obj.fset)
                    ELSE Failed("should be a function")

RECURSIVE SearchClasses(_, _, _)
\* lines 150-172: the for/else over the classes of the module
SearchClasses(classes, i, function_name) ==
    IF i > Len(classes) THEN Failed("can't find")
    ELSE
      LET tried == TryClass(classes[i], function_name)
      IN  IF tried.outcome = "AttributeError"
          THEN SearchClasses(classes, i + 1, function_name)
          ELSE tried

\* lines 143-172: check if function_name exists
CheckFunction(module_name, function_name) ==
    LET all_classes_within_module == ClassesWithin(module_name)
    IN  IF all_classes_within_module = <<>> THEN Failed("has no classes")
        ELSE SearchClasses(all_classes_within_module, 1, function_name)

ReportNotFoundAndRaise(st, ns) ==
    [st EXCEPT !.printed = Append(@, Line("MODULE NOT FOUND", ns, <<>>)),
               !.error = "ModuleNotFoundError"]

\* lines 137-139: report and go on with the next namespace
ReportNotFound(st, ns) ==
    [st EXCEPT !.printed = Append(@, Line("MODULE NOT FOUND", ns, <<>>))]

ReportLevelAlwaysPlain(out, ns, prev_level, logging_level) ==
    Append(out, Line("applied", ns, <<>>))

\* lines 178-182
ReportLevel(out, ns, prev_level, logging_level) ==
    IF prev_level = WARNING THEN Append(out, Line("applied", ns, <<>>))
    ELSE IF prev_level # logging_level
         THEN Append(out, Line("overrides previous level", ns, getLevelName(prev_level)))
         ELSE out

AttachFilterAlwaysNew(existing_filters, function_name) ==
    Append(existing_filters, FuncNameFilter(function_name))

\* lines 185-190
AttachFilter(existing_filters, function_name) ==
    IF existing_filters = <<>>
    THEN Append(existing_filters, FuncNameFilter(function_name))
    ELSE [existing_filters EXCEPT ![1] = add_func_name(@, function_name)]

\* lines 174-191: set the level of the child logger, report, attach the filter
SetLevel(st, ns, logging_level, function_name) ==
    LET prev_level == getEffectiveLevel(st.levels, ns)
        out1 == ReportLevel(st.printed, ns, prev_level, logging_level)
        out2 == IF st.filters[ns] = <<>>
                THEN Append(out1, Line("filtering following function(s)", <<>>, <<>>))
                ELSE out1
    IN  IF UnknownLevel(logging_level) THEN [st EXCEPT !.error = "Unknown level"]
        ELSE IF function_name = None
             THEN [st EXCEPT !.levels[ns] = logging_level, !.printed = out1]
             ELSE [st EXCEPT !.levels[ns] = logging_level,
                             !.filters[ns] = AttachFilter(@, function_name),
                             !.printed = Append(out2, Line("function", function_name, <<>>))]

\* lines 122-191: one namespace the expander left unchanged
ProcessNamespace(st, logging_level, ns) ==
    LET full        == <<root_module_name, ".">> \o ns
        imported    == full \in Modules
        dot         == RFind(full, ".")
        head        == SubSeq(full, 1, dot - 1)
        tail        == From(full, dot + 1)
        module_name == IF imported THEN None ELSE head
        module_obj  == imported \/ head \in Modules
        function_name == IF ~imported /\ head \in Modules THEN tail ELSE None
        target      == IF imported THEN full ELSE module_name
        check       == IF function_name # <<>>
                       THEN CheckFunction(module_name, function_name)
                       ELSE Found(None)
    IN  IF ~module_obj THEN ReportNotFound(st, target)
        ELSE IF check.outcome # "found" THEN [st EXCEPT !.error = check.outcome]
        ELSE SetLevel(st, target, logging_level, check.name)

RECURSIVE ApplyLoop(_, _, _, _)
\* lines 116-120: the for loop over a list that grows while it is walked
ApplyLoop(st, logging_level, namespaces, i) ==
    IF i > Len(namespaces) \/ st.error # "none" THEN st
    ELSE
      LET resolved_namespaces == resolve_bracketed_logging_namespace(namespaces[i])
      IN  IF resolved_namespaces.status = "error"
          THEN [st EXCEPT !.error = resolved_namespaces.why]
          ELSE IF resolved_namespaces.status = "list"
               THEN ApplyLoop(st, logging_level,
                              namespaces \o resolved_namespaces.names, i + 1)
               ELSE ApplyLoop(ProcessNamespace(st, logging_level, namespaces[i]),
                              logging_level, namespaces, i + 1)

\* lines 104-191
apply_logging_level(st, logging_level, namespaces) ==
    LET logging_level_name == getLevelName(logging_level)
    IN  IF namespaces = <<>>
        THEN LET said == [st EXCEPT !.printed =
                            Append(@, Line("logging level is set", <<>>, logging_level_name))]
             IN  IF UnknownLevel(logging_level)
                 THEN [said EXCEPT !.error = "Unknown level"]
                 ELSE [said EXCEPT !.levels[logger] = logging_level]
        ELSE ApplyLoop([st EXCEPT !.printed =
                          Append(@, Line("logging level is set for", <<>>, logging_level_name))],
                       logging_level, namespaces, 1)

\* the registry as an operation finds it, with nothing printed yet
Registry == [levels |-> levels, filters |-> filters, printed |-> <<>>, error |-> error]

Call(logging_level, namespaces) == [level |-> logging_level, namespaces |-> namespaces]

-----------------------------------------------------------------------------
(* main (lines 34-85) *)

UpperNames == {"CRITICAL", "ERROR", "WARNING", "INFO", "DEBUG", "NOTSET",
               "WARN", "FATAL", "BOGUS"}
Punctuation == {".", "[", "]", ","}

\* str.isupper: some cased character, and every cased character upper case
isupper(tok) ==
    /\ \E i \in 1..Len(tok) : tok[i] \in UpperNames
    /\ \A i \in 1..Len(tok) : tok[i] \in UpperNames \cup Punctuation

\* a flag of parse_args: None when the flag is absent, else its list of
\* values, written <<list>> to keep it apart from None
Given(values) == <<values>>
ValuesOf(flag) == flag[1]

\* namespaces_by_level[key].append(arg) on a defaultdict(list): a missing key
\* is added after the keys there are
DictAppend(dict, key, arg) ==
    IF \E k \in 1..Len(dict) : dict[k].level = key
    THEN [k \in 1..Len(dict) |->
            IF dict[k].level = key
            THEN [dict[k] EXCEPT !.namespaces = Append(@, arg)]
            ELSE dict[k]]
    ELSE Append(dict, Call(key, <<arg>>))

RECURSIVE GroupArgs(_, _, _, _)
\* lines 79-83
GroupArgs(tokens, i, logging_level, dict) ==
    IF i > Len(tokens) THEN dict
    ELSE IF isupper(tokens[i])
         THEN GroupArgs(tokens, i + 1, getLevelName(tokens[i]), dict)
         ELSE GroupArgs(tokens, i + 1, logging_level,
                        DictAppend(dict, logging_level, tokens[i]))

\* the file run as a script (python -m advanced_logging_filter): lines 1-229
\* bind the module's names, nothing calls main, the process exits 0
RunModule ==
    /\ pc = "loaded"
    /\ pc' = "exit"
    /\ UNCHANGED <<module_globals, args, namespaces_by_level, levels, filters,
                   printed, error, calls, namespace, tree, resolved>>

\* lines 35-65 of a call of main: _init_logger sets the root level, line 36
\* reads the global __sigterm_handler and raises NameError when it is not
\* bound, parse_args gives args
MainInit ==
    /\ pc = "loaded"
    /\ levels' = [levels EXCEPT ![logger] = WARNING]
    /\ IF "__sigterm_handler" \in module_globals
       THEN pc' = "verbose" /\ UNCHANGED error
       ELSE pc' = "failed" /\ error' = "NameError"
    /\ UNCHANGED <<module_globals, args, namespaces_by_level, filters, printed,
                   calls, namespace, tree, resolved>>

\* lines 67-70: _apply_logging_level(logging_level, flag) when the flag is given
ApplyFlag(flag, logging_level, next) ==
    IF flag = None
    THEN /\ pc' = next
         /\ UNCHANGED <<levels, filters, printed, error, calls>>
    ELSE LET st == apply_logging_level(Registry, logging_level, ValuesOf(flag))
         IN  /\ levels' = st.levels
             /\ filters' = st.filters
             /\ printed' = st.printed
             /\ error' = st.error
             /\ calls' = Append(calls, Call(logging_level, ValuesOf(flag)))
             /\ pc' = IF st.error = "none" THEN next ELSE "failed"

\* lines 67-68
MainVerbose ==
    /\ pc = "verbose"
    /\ ApplyFlag(args.verbose, INFO, "debug")
    /\ UNCHANGED <<module_globals, args, namespaces_by_level, namespace, tree,
                   resolved>>

\* lines 69-70
MainDebug ==
    /\ pc = "debug"
    /\ ApplyFlag(args.debug, DEBUG, "set_logging_level")
    /\ UNCHANGED <<module_globals, args, namespaces_by_level, namespace, tree,
                   resolved>>

\* lines 71-83: the first token is the level, the rest are grouped by level
MainParse ==
    /\ pc = "set_logging_level"
    /\ args.set_logging_level # None
    /\ LET tokens == ValuesOf(args.set_logging_level)
       IN  IF ~isupper(tokens[1])
           THEN /\ error' = "needs to be a upper case string"
                /\ pc' = "failed"
                /\ UNCHANGED namespaces_by_level
           ELSE /\ namespaces_by_level' =
                     GroupArgs(tokens, 2, getLevelName(tokens[1]),
                               <<Call(getLevelName(tokens[1]), <<>>)>>)
                /\ pc' = "apply"
                /\ UNCHANGED error
    /\ UNCHANGED <<module_globals, args, levels, filters, printed, calls,
                   namespace, tree, resolved>>

\* lines 84-85: one turn of the loop over the dict's items
MainApply ==
    /\ pc = "apply"
    /\ namespaces_by_level # <<>>
    /\ LET item == Head(namespaces_by_level)
           st   == apply_logging_level(Registry, item.level, item.namespaces)
       IN  /\ levels' = st.levels
           /\ filters' = st.filters
           /\ printed' = st.printed
           /\ error' = st.error
           /\ calls' = Append(calls, item)
           /\ pc' = IF st.error = "none" THEN "apply" ELSE "failed"
           /\ namespaces_by_level' = Tail(namespaces_by_level)
    /\ UNCHANGED <<module_globals, args, namespace, tree, resolved>>

\* main returns, --set_logging_level absent (line 71) or handled (line 85)
MainReturn ==
    /\ \/ pc = "set_logging_level" /\ args.set_logging_level = None
       \/ pc = "apply" /\ namespaces_by_level = <<>>
    /\ pc' = "done"
    /\ UNCHANGED <<module_globals, args, namespaces_by_level, levels, filters,
                   printed, error, calls, namespace, tree, resolved>>

-----------------------------------------------------------------------------
(* The module once loaded (the root logger of line 17 is at the facility's *)
(* default, WARNING) and the inputs                                        *)

InitRegistry ==
    /\ levels = [n \in LoggerNames |-> IF n = logger THEN WARNING ELSE NOTSET]
    /\ filters = [n \in LoggerNames |-> <<>>]
    /\ printed = <<>>
    /\ error = "none"
    /\ calls = <<>>

NoExpander ==
    /\ namespace = <<>>
    /\ tree = NoTree
    /\ resolved = NotCalled

NoArgs == [verbose |-> None, debug |-> None, set_logging_level |-> None]

\* the file binds none of the names main reads beyond its own definitions
AsShipped == {}

\* a host that defined the handler in the module before calling main
HostBound == {"__sigterm_handler"}

Tokens == {INFO, DEBUG, WARN, <<"BOGUS">>,
           <<"m">>, <<"m", ".", "n">>, <<"x", ".", "y">>}

\* --verbose and --debug (nargs='*'): absent, bare, or with namespaces
VerboseValues == {None, Given(<<>>), Given(<< <<"m">> >>)}
DebugValues   == {None, Given(<< <<"m", ".", "n">> >>), Given(<< <<"m", ".", "z">> >>)}

\* --set_logging_level (nargs='+'): absent, or at least one token
SetLoggingLevelValues(n) == {None} \cup {Given(t) : t \in SeqsUpTo(Tokens, n)}

Init ==
    /\ module_globals \in {AsShipped, HostBound}
    /\ args \in [verbose : VerboseValues, debug : DebugValues,
                 set_logging_level : SetLoggingLevelValues(MaxTokens)]
    /\ pc = "loaded"
    /\ namespaces_by_level = <<>>
    /\ InitRegistry
    /\ NoExpander

Next == RunModule \/ MainInit \/ MainVerbose \/ MainDebug \/ MainParse
        \/ MainApply \/ MainReturn

Spec == Init /\ [][Next]_vars

-----------------------------------------------------------------------------
(* _apply_logging_level called directly, as main does for --verbose/--debug *)

Batches == {
    <<>>,
    << <<"m">> >>,
    << <<"m", ".", "n">> >>,
    << <<"m", ".", "f">> >>,
    << <<"m", ".", "g">> >>,
    << <<"m", ".", "s">> >>,
    << <<"m", ".", "h">> >>,
    << <<"m", ".", "p">> >>,
    << <<"m", ".", "z">> >>,
    << <<"u", ".", "f">> >>,
    << <<"x", ".", "y">> >>,
    << <<"x", ".", "y">>, <<"m">> >>,
    << <<"m", ".", "n">>, <<"x", ".", "y">>, <<"m", ".", "h">> >>,
    << <<"m", ".", "[", "f", ",", "h", "]">> >>
}

InitApply ==
    /\ module_globals = AsShipped
    /\ args = NoArgs
    /\ pc = "called"
    /\ namespaces_by_level = <<>>
    /\ InitRegistry
    /\ NoExpander

\* one call _apply_logging_level(logging_level, namespaces)
Apply(logging_level, namespaces) ==
    /\ LET st == apply_logging_level(Registry, logging_level, namespaces)
       IN  /\ levels' = st.levels
           /\ filters' = st.filters
           /\ printed' = st.printed
           /\ error' = st.error
    /\ calls' = Append(calls, Call(logging_level, namespaces))
    /\ UNCHANGED <<module_globals, args, pc, namespaces_by_level, namespace,
                   tree, resolved>>

\* a run ends with its first uncaught error; MaxCalls calls are followed
NextApply ==
    /\ error = "none"
    /\ Len(calls) < MaxCalls
    /\ \E l \in LevelNames, b \in Batches : Apply(l, b)

SpecApply == InitApply /\ [][NextApply]_vars

-----------------------------------------------------------------------------
(* _resolve_bracketed_logging_namespace on its own *)

NoProgram ==
    /\ module_globals = AsShipped
    /\ args = NoArgs
    /\ pc = "called"
    /\ namespaces_by_level = <<>>
    /\ InitRegistry

\* one call _resolve_bracketed_logging_namespace(namespace)
Expand ==
    /\ resolved = NotCalled
    /\ resolved' = resolve_bracketed_logging_namespace(namespace)
    /\ UNCHANGED <<module_globals, args, pc, namespaces_by_level, levels, filters,
                   printed, error, calls, namespace, tree>>

InitExpand ==
    /\ namespace \in StringsUpTo(MaxLen)
    /\ tree = NoTree
    /\ resolved = NotCalled
    /\ NoProgram

SpecExpand == InitExpand /\ [][Expand]_vars

InitGrammar ==
    /\ tree \in TreesOfDepth(MaxDepth)
    /\ namespace = Render(tree)
    /\ resolved = NotCalled
    /\ NoProgram

SpecGrammar == InitGrammar /\ [][Expand]_vars

-----------------------------------------------------------------------------
(* Properties of the expander *)

Expanded == resolved # NotCalled

\* some '[' of s, outer or nested, is not immediately preceded by '.'
BadSeparator(s) ==
    \E i \in 1..Len(s) : s[i] = "[" /\ (i = 1 \/ s[i - 1] # ".")

RECURSIVE OpenAtEnd(_, _, _)
\* the number of '[' still open after s[i..], a ']' closing the latest open '['
OpenAtEnd(s, i, open) ==
    IF i > Len(s) THEN open
    ELSE IF s[i] = "[" THEN OpenAtEnd(s, i + 1, open + 1)
    ELSE IF s[i] = "]" /\ open > 0 THEN OpenAtEnd(s, i + 1, open - 1)
    ELSE OpenAtEnd(s, i + 1, open)

\* some '[' of s has no matching ']'
Unclosed(s) == OpenAtEnd(s, 1, 0) > 0

HasBracket(s) == Contains(s, "[") \/ Contains(s, "]")

\* C1: for every well-formed bracketed spec of the grammar, sibling bracket
\* groups included, the expander returns exactly the reference expansion:
\* every item expanded, prefixed with the outer prefix, in left-to-right order.
C1_ReferenceExpansion ==
    (Expanded /\ tree.items # <<>>) => resolved = Returned(Expansion(tree))

\* C2: an input with a '[' that is not preceded by '.', or with a '[' that has
\* no matching ']', makes the expander fail; it is never expanded to a list.
C2_MalformedFails ==
    (Expanded /\ Contains(namespace, "[")
       /\ (BadSeparator(namespace) \/ Unclosed(namespace)))
    => (resolved.status = "error" /\ resolved.names = <<>>)

\* a nested group is left open inside an outer group that is closed
C2_Witness ==
    /\ resolved.status = "error"
    /\ resolved.why = "missing bracket"
    /\ Unclosed(namespace)
    /\ ~BadSeparator(namespace)
    /\ EndsWith(namespace, "]")

\* C10: whenever the expander returns a list, no returned name contains a
\* '[' or a ']'.
C10_NoBracketLeft ==
    resolved.status = "list"
    => \A i \in 1..Len(resolved.names) : ~HasBracket(resolved.names[i])

-----------------------------------------------------------------------------
(* Properties of --set_logging_level *)

\* the tokens given to --set_logging_level, none when the flag is absent
given == IF args.set_logging_level = None THEN <<>> ELSE ValuesOf(args.set_logging_level)

\* every upper-case token names one of the six levels
LevelTokensKnown == \A i \in 1..Len(given) : isupper(given[i]) => given[i] \in LevelNames

\* the nearest level token before token i
LevelTokenBefore(i) ==
    CHOOSE j \in 1..(i - 1) :
        isupper(given[j]) /\ \A k \in (j + 1)..(i - 1) : ~isupper(given[k])

\* token i is the last occurrence of its namespace
LastOccurrence(i) == \A k \in (i + 1)..Len(given) : given[k] # given[i]

FullName(n) == <<root_module_name, ".">> \o n

\* C3: the overrides are applied in token order, so a namespace that stands
\* under two levels ends at the level of its last occurrence.
C3_LastOccurrenceWins ==
    (pc = "done" /\ given # <<>> /\ LevelTokensKnown)
    => \A i \in 2..Len(given) :
          (~isupper(given[i]) /\ FullName(given[i]) \in Modules /\ LastOccurrence(i))
          => levels[FullName(given[i])] = given[LevelTokenBefore(i)]

\* the number of calls made for --verbose and --debug (lines 67-70)
FlagCalls == (IF args.verbose = None THEN 0 ELSE 1) + (IF args.debug = None THEN 0 ELSE 1)

\* the levels of the root overrides applied for --set_logging_level
RootOverrides ==
    {calls[k].level : k \in {j \in (FlagCalls + 1)..Len(calls) : calls[j].namespaces = <<>>}}

\* the level tokens that are followed by no namespace token
BareLevelTokens ==
    {given[i] : i \in {j \in 1..Len(given) :
                        isupper(given[j]) /\ (j = Len(given) \/ isupper(given[j + 1]))}}

\* C4: every level token followed by no namespace token causes a root
\* override to that level, and a level token with namespaces causes none.
C4_BareLevelSetsRoot ==
    (pc = "done" /\ given # <<>> /\ LevelTokensKnown) => RootOverrides = BareLevelTokens

\* C8: a run whose first token is not upper case, or that holds a level token
\* naming no level, never completes normally.
C8_BadLevelIsFatal ==
    (pc = "done" /\ given # <<>>) => (isupper(given[1]) /\ LevelTokensKnown)

-----------------------------------------------------------------------------
(* Properties of _apply_logging_level *)

Plain(n) == ~Contains(n, "[")

\* the logger node a bracket-free namespace stands for
NodeOf(n) == IF FullName(n) \in Modules THEN FullName(n) ELSE Parent(FullName(n))

Resolvable(n) == Plain(n) /\ NodeOf(n) \in Modules

\* neither the full path nor the path without its last segment is a module
Unresolved(n) == Plain(n) /\ NodeOf(n) \notin Modules

\* the trailing segment of a namespace that names a function of a module
FunctionScoped(n) ==
    /\ Plain(n)
    /\ FullName(n) \notin Modules
    /\ Parent(FullName(n)) \in Modules
    /\ From(FullName(n), RFind(FullName(n), ".") + 1) # <<>>

TrailingSegment(n) == From(FullName(n), RFind(FullName(n), ".") + 1)

In(n, batch) == \E i \in 1..Len(batch) : batch[i] = n

Said(text, ns, level) == \E i \in 1..Len(printed) : printed[i] = Line(text, ns, level)

LastCall == calls[Len(calls)]
CallBefore == calls[Len(calls) - 1]

\* n was applied by the last two calls, with distinct levels, and nothing failed
AppliedTwice(n) ==
    /\ Len(calls) >= 2
    /\ error = "none"
    /\ Resolvable(n)
    /\ In(n, CallBefore.namespaces)
    /\ In(n, LastCall.namespaces)
    /\ CallBefore.level # LastCall.level

BatchNames == UNION {{b[i] : i \in 1..Len(b)} : b \in Batches}

\* C5 as stated: for any two distinct levels X then Y on n, the second
\* application reports n as overriding previous level X and the effective
\* level of n's node is Y afterwards.
C5_OverrideReported ==
    \A n \in BatchNames :
        AppliedTwice(n)
        => /\ Said("overrides previous level", NodeOf(n), CallBefore.level)
           /\ getEffectiveLevel(levels, NodeOf(n)) = LastCall.level

\* C5 amended: the override of X is reported when X is neither WARNING nor
\* NOTSET; after WARNING the second application is reported like a fresh one;
\* the node's level is Y, and Y is its effective level unless Y is NOTSET.
C5_OverrideReportedUnlessDefault ==
    \A n \in BatchNames :
        AppliedTwice(n)
        => /\ CallBefore.level \notin {WARNING, NOTSET}
                => Said("overrides previous level", NodeOf(n), CallBefore.level)
           /\ CallBefore.level = WARNING
                => /\ Said("applied", NodeOf(n), <<>>)
                   /\ ~Said("overrides previous level", NodeOf(n), WARNING)
           /\ levels[NodeOf(n)] = LastCall.level
           /\ LastCall.level # NOTSET
                => getEffectiveLevel(levels, NodeOf(n)) = LastCall.level

C5_Witness ==
    \E n \in BatchNames :
        /\ AppliedTwice(n)
        /\ CallBefore.level = INFO
        /\ LastCall.level = DEBUG
        /\ Said("overrides previous level", NodeOf(n), INFO)
        /\ levels[NodeOf(n)] = DEBUG

\* the bracket-free names a batch stands for
RECURSIVE Flat(_, _)
Flat(batch, i) ==
    IF i > Len(batch) THEN {}
    ELSE LET r == resolve_bracketed_logging_namespace(batch[i])
         IN  {r.names[k] : k \in 1..Len(r.names)} \cup Flat(batch, i + 1)

Requested == UNION {Flat(calls[k].namespaces, 1) : k \in 1..Len(calls)}

\* the function names the function-scoped overrides for a node resolve to
Registered(node) ==
    {CheckFunction(node, TrailingSegment(n)).name :
        n \in {r \in Requested :
                 /\ FunctionScoped(r)
                 /\ NodeOf(r) = node
                 /\ CheckFunction(node, TrailingSegment(r)).outcome = "found"}}

Accepted(node) == UNION {filters[node][i] : i \in 1..Len(filters[node])}

\* C6: every logger node carries at most one FuncNameFilter, whose accepted
\* names are exactly the function names registered for the node so far.
C6_OneFilterPerNode ==
    \A node \in LoggerNames :
        /\ Len(filters[node]) <= 1
        /\ Accepted(node) \subseteq Registered(node)
        /\ error = "none" => Accepted(node) = Registered(node)

C6_Witness ==
    /\ Len(calls) = 2
    /\ calls[1].namespaces = << <<"m", ".", "f">> >>
    /\ calls[2].namespaces = << <<"m", ".", "h">> >>
    /\ filters[ModM] = << {<<"f">>, <<"h">>} >>
    /\ filter(filters[ModM][1], <<"h">>)
    /\ ~filter(filters[ModM][1], <<"g">>)

Others(batch) == SelectSeq(batch, LAMBDA n : ~Unresolved(n))

\* C7: an unresolved namespace of a batch is reported as MODULE NOT FOUND and
\* raises nothing, and the call leaves every level and filter as the same call
\* without that namespace does: the other namespaces are applied, it changes
\* nothing.
C7_NotFoundIsSkipped ==
    [][ (Len(calls') = Len(calls) + 1
          /\ Others(calls'[Len(calls')].namespaces) # calls'[Len(calls')].namespaces)
        => LET c    == calls'[Len(calls')]
               rest == Others(c.namespaces)
               ref  == apply_logging_level(Registry, c.level, rest)
           IN  /\ \A i \in 1..Len(c.namespaces) :
                     Unresolved(c.namespaces[i])
                     => \E k \in 1..Len(printed') :
                           printed'[k] = Line("MODULE NOT FOUND",
                                              NodeOf(c.namespaces[i]), <<>>)
               /\ IF rest = <<>>
                  THEN levels' = levels /\ filters' = filters /\ error' = "none"
                  ELSE /\ levels' = ref.levels
                       /\ filters' = ref.filters
                       /\ error' = ref.error ]_vars

C7_Witness ==
    /\ Len(calls) >= 1
    /\ LastCall = Call(DEBUG, << <<"m", ".", "n">>, <<"x", ".", "y">>, <<"m", ".", "h">> >>)
    /\ error = "none"
    /\ Said("MODULE NOT FOUND", <<root_module_name, ".", "x">>, <<>>)
    /\ levels[ModN] = DEBUG
    /\ levels[ModM] = DEBUG
    /\ filters[ModM] # <<>>

\* the class has the name as a plain function or an accessor with a getter or
\* a setter
Usable(cls, name) ==
    /\ name \in DOMAIN cls
    /\ \/ cls[name].kind = "function"
       \/ cls[name].kind = "property" /\ (cls[name].fget # None \/ cls[name].fset # None)

\* the last call was for the one function-scoped namespace n
OnlyFunction(n) ==
    /\ Len(calls) >= 1
    /\ LastCall.namespaces = <<n>>
    /\ FunctionScoped(n)
    /\ ClassesWithin(NodeOf(n)) # <<>>

OverrideApplied(n) ==
    /\ error = "none"
    /\ levels[NodeOf(n)] = LastCall.level
    /\ Accepted(NodeOf(n)) # {}
    /\ Said("function", CheckFunction(NodeOf(n), TrailingSegment(n)).name, <<>>)

\* C9 as stated: a class with the name as an accessor without getter and
\* setter is passed over; the override is applied when some class of the
\* module has a usable member, and can't-find is raised only when none has.
C9_BrokenAccessorSkipped ==
    \A n \in BatchNames :
        OnlyFunction(n)
        => LET classes == ClassesWithin(NodeOf(n))
               name    == TrailingSegment(n)
           IN  IF \E i \in 1..Len(classes) : Usable(classes[i], name)
               THEN error = "none" /\ levels[NodeOf(n)] = LastCall.level
               ELSE error = "can't find"

\* C9 amended: the first class that has the attribute decides. A usable member
\* is accepted; an accessor with neither getter nor setter ends the run with
\* the should-be-a-function error and no later class is searched; can't-find
\* is raised only when no class has the attribute at all.
C9_FirstClassDecides ==
    \A n \in BatchNames :
        OnlyFunction(n)
        => LET classes == ClassesWithin(NodeOf(n))
               name    == TrailingSegment(n)
               having  == {i \in 1..Len(classes) : name \in DOMAIN classes[i]}
           IN  IF having = {} THEN error = "can't find" /\ Len(printed) = 1
               ELSE LET first == CHOOSE i \in having : \A j \in having : i <= j
                    IN  IF Usable(classes[first], name)
                        THEN OverrideApplied(n)
                        ELSE error = "should be a function" /\ Len(printed) = 1

C9_Witness ==
    /\ Len(calls) >= 1
    /\ LastCall.namespaces = << <<"m", ".", "p">> >>
    /\ Usable(ClassB, <<"p">>)
    /\ ~Usable(ClassA, <<"p">>)
    /\ error = "should be a function"

=============================================================================
